---- MODULE Spec2Model ----
(***************************************************************************)
(* The conversation/context state machine of the AI Assistant panel        *)
(* (src/src/panels/AIPanel.ts): the transcript _conversation, the messages *)
(* the webview posts to the extension host, the events the host posts      *)
(* back, and the completion calls and file prompts a handler is suspended  *)
(* on; and the state of the webview (src/src/webview/webview.html): the    *)
(* list of attached files it shows and its loading flag.                   *)
(*                                                                         *)
(* Strings are sequences of atoms: an atom stands for a piece of text no   *)
(* other atom overlaps, so concatenation is \o and String.includes is a    *)
(* search for a contiguous subsequence.                                    *)
(***************************************************************************)
EXTENDS Integers, Sequences, FiniteSets, TLC

VARIABLES
    conversation,   \* AIPanel._conversation: the transcript, a sequence of {role, content}
    inbox,          \* messages posted by the webview, not yet dispatched to the listener
    outbox,         \* events posted by _sendMessageToWebview, not yet delivered
    calls,          \* completion calls in flight, each with the messages of its request body
    picks,          \* number of attach handlers suspended in _promptUserForFile
    log,            \* history: the calls a specification counts, in order
    attachedFiles,  \* webview: the names of the files listed as attached
    isLoading       \* webview: an ask is shown as in progress, the inputs are disabled

vars == <<conversation, inbox, outbox, calls, picks, log, attachedFiles, isLoading>>

hist == <<log>>

\* The webview's own state.
ui == <<attachedFiles, isLoading>>

-----------------------------------------------------------------------------
(* Bounds of the model. *)

\* Turns the transcript may come to hold, counting the turns that the messages,
\* calls and prompts in flight can still append.
MaxTurns == 4

\* Messages, calls, prompts and events in flight at once.
MaxInFlight == 2

\* Calls the history variable records: attachFile and removeFile calls in
\* SpecAR, asks handled with a key and completion calls settled in SpecP.
MaxOps == 3

-----------------------------------------------------------------------------
(* Strings. *)

\* String.prototype.includes: needle occurs in hay as a contiguous run.
Includes(hay, needle) ==
    \E i \in 1..(Len(hay) - Len(needle) + 1) :
        SubSeq(hay, i, i + Len(needle) - 1) = needle

\* JavaScript truthiness of a string: the empty string is falsy.
Truthy(s) == s # <<>>

\* a || b on strings.
OrElse(a, b) == IF Truthy(a) THEN a ELSE b

IsSpace(c) == c \in {" ", "\n", "\t"}

RECURSIVE TrimStart(_)
TrimStart(s) ==
    IF s # <<>> /\ IsSpace(Head(s)) THEN TrimStart(Tail(s)) ELSE s

RECURSIVE TrimEnd(_)
TrimEnd(s) ==
    IF s # <<>> /\ IsSpace(s[Len(s)]) THEN TrimEnd(SubSeq(s, 1, Len(s) - 1)) ELSE s

\* String.prototype.trim.
Trim(s) == TrimEnd(TrimStart(s))

\* `${error}` for an Error object with the given message.
ErrorString(msg) == <<"Error: ">> \o msg

-----------------------------------------------------------------------------
(* The inputs: the files of the workspace, the questions, the API's answers. *)

\* The files of the workspace: b.py quotes the marker of a.py in its text.
Files ==
    { [fileName |-> <<"a.py">>, text |-> <<"print(1)">>],
      [fileName |-> <<"b.py">>, text |-> <<"# see ", "Code attachment - ", "a.py", ":">>] }

\* The documents an active editor may show: a file, or a blank document.
Documents == Files \cup { [fileName |-> <<"c.py">>, text |-> <<" ", "\n">>] }

FileNames == { f.fileName : f \in Files }

NoEditor == [fileName |-> <<>>, text |-> <<>>]

\* vscode.window.activeTextEditor: undefined, or an editor showing a document.
Editors == Documents \cup {NoEditor}

Questions == { <<"what does this do?">> }

ApiKeys == { <<>>, <<"sk-key">> }

\* What axios.post settles with: a 2xx response (ok), with or without a choices
\* array, or an AxiosError carrying the upstream error message, if any, and its
\* own message.
Results ==
    { [kind |-> "ok", hasChoices |-> TRUE, choices |-> <<<<"It prints 1.">>>>],
      [kind |-> "ok", hasChoices |-> TRUE, choices |-> << <<>> >>],
      [kind |-> "ok", hasChoices |-> TRUE, choices |-> <<>>],
      [kind |-> "ok", hasChoices |-> FALSE, choices |-> <<>>],
      [kind |-> "axios", upstream |-> <<"invalid_api_key">>,
       message |-> <<"Request failed with status code 401">>],
      [kind |-> "axios", upstream |-> <<>>,
       message |-> <<"Request failed with status code 500">>],
      [kind |-> "axios", upstream |-> <<>>, message |-> <<"Network Error">>] }

\* What _promptUserForFile settles with: null (no file found, none picked), a
\* file read from disk, or an Error (the search, the pick or the read threw).
PromptOutcomes ==
    { [kind |-> "null"] }
    \cup { [kind |-> "file", file |-> f] : f \in Files }
    \cup { [kind |-> "throw",
            msg |-> <<"Failed to select file: ">> \o ErrorString(<<"Failed to read file: ">>
                        \o ErrorString(<<"ENOENT">>))] }

\* Spec, where questions are asked, attaches one file, a.py; SpecAR, where
\* attaching and removing by name are studied, attaches every file.
Quoting(e) == e.fileName = <<"b.py">>

EditorsAsking == { e \in Editors : ~Quoting(e) }

PromptOutcomesAsking == { c \in PromptOutcomes : c.kind = "file" => ~Quoting(c.file) }

Messages ==
    { [command |-> "askQuestion", text |-> q] : q \in Questions }
    \cup { [command |-> "removeFile", fileName |-> f] : f \in FileNames }
    \cup { [command |-> c] : c \in {"clearConversation", "attachCode", "clearContext"} }

-----------------------------------------------------------------------------
(* The transcript operations. *)

Turn(role, content) == [role |-> role, content |-> content]

\* Array.prototype.unshift in place of push: the turn goes to the front.
UnshiftTurn(conv, turn) == <<turn>> \o conv

\* Array.prototype.push on _conversation.
PushTurn(conv, turn) == Append(conv, turn)

Marker(fileName) == <<"Code attachment - ">> \o fileName \o <<":">>

\* The content of the system turn of an attachment.
AttachmentContent(fileName, text) ==
    Marker(fileName) \o <<"\n", "fence", "\n">> \o text \o <<"\n", "fence">>

\* A removal that stops at the first matching turn.
RECURSIVE RemoveFirstMatch(_, _)
RemoveFirstMatch(conv, fileName) ==
    IF conv = <<>> THEN <<>>
    ELSE IF Head(conv).role = "system" /\ Includes(Head(conv).content, Marker(fileName))
         THEN Tail(conv)
         ELSE <<Head(conv)>> \o RemoveFirstMatch(Tail(conv), fileName)

\* _handleRemoveFile's filter.
RemoveFileFilter(conv, fileName) ==
    SelectSeq(conv, LAMBDA msg :
        ~(msg.role = "system" /\ Includes(msg.content, Marker(fileName))))

\* A filter on role === "user" in place of role !== "system".
KeepUserTurns(conv) ==
    SelectSeq(conv, LAMBDA msg : msg.role = "user")

\* _handleClearContext's filter.
ClearContextFilter(conv) ==
    SelectSeq(conv, LAMBDA msg : msg.role # "system")

\* A reset that keeps the attached files.
KeepContext(conv) ==
    SelectSeq(conv, LAMBDA msg : msg.role = "system")

\* case "clearConversation": this._conversation = [].
ClearedConversation(conv) == <<>>

\* A request body with the system turns moved to the front.
HoistedMessages(conv) ==
    SelectSeq(conv, LAMBDA msg : msg.role = "system")
        \o SelectSeq(conv, LAMBDA msg : msg.role # "system")

\* The messages field of the request body: the transcript itself.
RequestMessages(conv) == conv

-----------------------------------------------------------------------------
(* Events. *)

Event(type, content) == [type |-> type, content |-> content]

CodeAttached(fileName) ==
    [type |-> "codeAttached", fileName |-> fileName,
     content |-> <<"File added to context: ">> \o fileName]

\* _sendMessageToWebview.
Send(out, event) == Append(out, event)

-----------------------------------------------------------------------------
(* _callOpenAI. *)

Return(value) == [threw |-> FALSE, value |-> value]
Throw(msg) == [threw |-> TRUE, value |-> msg]

MissingKeyMessage ==
    <<"API key not found. Please set it in the extension settings or .env file.">>

\* The AxiosError's own message, whatever the response body says.
TransportMessageOnly(result) ==
    <<"API Error: ">> \o result.message

\* The message of the Error thrown for an AxiosError.
ApiErrorMessage(result) ==
    <<"API Error: ">> \o OrElse(result.upstream, result.message)

\* Whether the 2xx response carries a first choice.
HasChoice(result) == result.hasChoices /\ Len(result.choices) > 0

\* A call that returns the empty string for a response without choices.
CallOutcomeLenient(result) ==
    IF result.kind = "ok"
    THEN IF HasChoice(result) THEN Return(result.choices[1]) ELSE Return(<<>>)
    ELSE Throw(ApiErrorMessage(result))

\* What _callOpenAI settles with once axios.post has settled with `result`.
CallOutcome(result) ==
    IF result.kind = "ok"
    THEN IF HasChoice(result)
         THEN Return(result.choices[1])
         ELSE Throw(<<"Invalid response from OpenAI API">>)
    ELSE Throw(ApiErrorMessage(result))

\* No check of the key before the request.
KeyUnchecked(key) == TRUE

\* Whether _callOpenAI goes on to axios.post.
KeyPresent(key) == Truthy(key)

-----------------------------------------------------------------------------
(* _handleUserMessage. *)

ProcessingError(msg) ==
    Event("error", <<"Error processing message: ">> \o ErrorString(msg))

\* A handler that builds the request before it pushes the user turn.
AskStartRequestFirst(text, apiKey) ==
    /\ conversation' = PushTurn(conversation, Turn("user", text))
    /\ IF KeyPresent(apiKey)
       THEN /\ calls' = Append(calls, [messages |-> RequestMessages(conversation)])
            /\ outbox' = outbox
       ELSE /\ calls' = calls
            /\ outbox' = Send(outbox, ProcessingError(MissingKeyMessage))
    /\ UNCHANGED <<picks>>

\* A handler that serializes the asks: an ask that arrives while a completion
\* call is in flight is dropped.
AskStartSerialized(text, apiKey) ==
    IF calls # <<>>
    THEN UNCHANGED <<conversation, calls, outbox, picks>>
    ELSE LET conv == PushTurn(conversation, Turn("user", text)) IN
         /\ conversation' = conv
         /\ IF KeyPresent(apiKey)
            THEN /\ calls' = Append(calls, [messages |-> RequestMessages(conv)])
                 /\ outbox' = outbox
            ELSE /\ calls' = calls
                 /\ outbox' = Send(outbox, ProcessingError(MissingKeyMessage))
         /\ UNCHANGED <<picks>>

\* Up to the await of axios.post, apiKey being what config.getApiKey() returns
\* to this call: the user turn is pushed; without a key the call throws before
\* any request and the catch posts the error, no other handler running in
\* between; with a key the request is issued with the transcript, as it is at
\* that moment, as its messages.
AskStart(text, apiKey) ==
    LET conv == PushTurn(conversation, Turn("user", text)) IN
    /\ conversation' = conv
    /\ IF KeyPresent(apiKey)
       THEN /\ calls' = Append(calls, [messages |-> RequestMessages(conv)])
            /\ outbox' = outbox
       ELSE /\ calls' = calls
            /\ outbox' = Send(outbox, ProcessingError(MissingKeyMessage))
    /\ UNCHANGED <<picks>>

\* An assistant turn for whatever the call settled with, its error included.
AfterCallAlways(conv, outcome) ==
    PushTurn(conv, Turn("assistant", outcome.value))

\* The transcript after _callOpenAI settled with `outcome`.
AfterCall(conv, outcome) ==
    IF ~outcome.threw /\ Truthy(outcome.value)
    THEN PushTurn(conv, Turn("assistant", outcome.value))
    ELSE conv

\* The events after _callOpenAI settled with `outcome`.
EventsAfterCall(out, outcome) ==
    IF outcome.threw
    THEN Send(out, ProcessingError(outcome.value))
    ELSE IF Truthy(outcome.value)
         THEN Send(out, Event("response", outcome.value))
         ELSE out

\* A call that is issued again once it has settled: it stays in flight.
IssuedAgain(s, i) == s

\* The calls in flight once call i has settled.
RemoveAt(s, i) == SubSeq(s, 1, i - 1) \o SubSeq(s, i + 1, Len(s))

\* axios.post of call i settles with `result` and the rest of
\* _handleUserMessage runs, after the await.
AskResume(i, result) ==
    /\ i \in 1..Len(calls)
    /\ outbox = <<>>
    /\ UNCHANGED <<inbox, picks>>
    /\ calls' = RemoveAt(calls, i)
    /\ LET outcome == CallOutcome(result) IN
       /\ conversation' = AfterCall(conversation, outcome)
       /\ outbox' = EventsAfterCall(outbox, outcome)

-----------------------------------------------------------------------------
(* _handleAttachCode. *)

\* A check of the text for emptiness, without the trim.
EditorContentUntrimmed(editor) ==
    IF editor.text = <<>> THEN [kind |-> "null"] ELSE [kind |-> "file", file |-> editor]

\* _getActiveEditorContent with an active editor: null for a blank document.
EditorContent(editor) ==
    IF Trim(editor.text) = <<>> THEN [kind |-> "null"] ELSE [kind |-> "file", file |-> editor]

\* An attach that patches the file text into the last turn when that is a user
\* turn, in place of a turn of its own.
AfterAttachPatched(conv, content) ==
    IF content.kind # "file" THEN conv
    ELSE IF conv # <<>> /\ conv[Len(conv)].role = "user"
         THEN [conv EXCEPT ![Len(conv)].content =
                  @ \o <<"\n">> \o AttachmentContent(content.file.fileName, content.file.text)]
         ELSE PushTurn(conv, Turn("system",
                  AttachmentContent(content.file.fileName, content.file.text)))

\* An attach that skips a file name the transcript already holds a turn for.
AfterAttachOnce(conv, content) ==
    IF /\ content.kind = "file"
       /\ \A k \in 1..Len(conv) :
             ~(conv[k].role = "system"
               /\ Includes(conv[k].content, Marker(content.file.fileName)))
    THEN PushTurn(conv, Turn("system",
             AttachmentContent(content.file.fileName, content.file.text)))
    ELSE conv

\* The transcript after the content was resolved.
AfterAttach(conv, content) ==
    IF content.kind = "file"
    THEN PushTurn(conv, Turn("system",
             AttachmentContent(content.file.fileName, content.file.text)))
    ELSE conv

\* The events after the content was resolved.
EventsAfterAttach(out, content) ==
    CASE content.kind = "file" -> Send(out, CodeAttached(content.file.fileName))
      [] content.kind = "null" -> Send(out, Event("error", <<"No code to attach">>))
      [] content.kind = "throw" ->
            Send(out, Event("error", <<"Error attaching code: ">> \o ErrorString(content.msg)))

\* Up to the first suspension: with an active editor the handler runs to its
\* end; without one it waits in _promptUserForFile.
AttachStart(editor) ==
    IF editor = NoEditor
    THEN /\ picks' = picks + 1
         /\ UNCHANGED <<conversation, outbox, calls>>
    ELSE /\ conversation' = AfterAttach(conversation, EditorContent(editor))
         /\ outbox' = EventsAfterAttach(outbox, EditorContent(editor))
         /\ UNCHANGED <<picks, calls>>

\* _promptUserForFile settles and the handler runs to its end.
AttachResume(content) ==
    /\ picks > 0
    /\ outbox = <<>>
    /\ picks' = picks - 1
    /\ conversation' = AfterAttach(conversation, content)
    /\ outbox' = EventsAfterAttach(outbox, content)
    /\ UNCHANGED <<inbox, calls>>

-----------------------------------------------------------------------------
(* The synchronous handlers. *)

HandleRemoveFile(fileName) ==
    /\ conversation' = RemoveFileFilter(conversation, fileName)
    /\ UNCHANGED <<outbox, calls, picks>>

HandleClearContext ==
    /\ conversation' = ClearContextFilter(conversation)
    /\ outbox' = Send(outbox, [type |-> "contextCleared"])
    /\ UNCHANGED <<calls, picks>>

HandleClearConversation ==
    /\ conversation' = ClearedConversation(conversation)
    /\ outbox' = Send(outbox, [type |-> "clear"])
    /\ UNCHANGED <<calls, picks>>

-----------------------------------------------------------------------------
(* The message listener and the environment. *)

\* Turns the items in flight can still append.
RECURSIVE Owed(_)
Owed(msgs) ==
    IF msgs = <<>> THEN 0
    ELSE (CASE Head(msgs).command = "askQuestion" -> 2
            [] Head(msgs).command = "attachCode" -> 1
            [] OTHER -> 0) + Owed(Tail(msgs))

InFlight == Len(inbox) + Len(calls) + picks + Len(outbox)

\* The webview posts a message. The listener is called for a message before the
\* next one is posted: dispatch depends on nothing else, so this leaves out no
\* order in which the handlers can run.
Post(msg) ==
    /\ InFlight < MaxInFlight
    /\ inbox = <<>>
    /\ Len(conversation) + Len(calls) + picks + Owed(Append(inbox, msg)) <= MaxTurns
    /\ inbox' = Append(inbox, msg)
    /\ UNCHANGED <<conversation, outbox, calls, picks>>

\* The listener's switch on message.command, for the message at the head; editor
\* is the active editor's document and apiKey the configured key at that moment.
Dispatch(msg, editor, apiKey) ==
    /\ inbox # <<>>
    /\ outbox = <<>>
    /\ msg = Head(inbox)
    /\ inbox' = Tail(inbox)
    /\ CASE msg.command = "askQuestion" -> AskStart(msg.text, apiKey)
         [] msg.command = "clearConversation" -> HandleClearConversation
         [] msg.command = "attachCode" -> AttachStart(editor)
         [] msg.command = "removeFile" -> HandleRemoveFile(msg.fileName)
         [] msg.command = "clearContext" -> HandleClearContext

\* The webview takes the next event. A handler runs only once the events posted
\* before it were taken (the guards outbox = <<>>): no handler reads the events,
\* so this leaves out no order in which the handlers can run.
Deliver ==
    /\ outbox # <<>>
    /\ outbox' = Tail(outbox)
    /\ UNCHANGED <<conversation, inbox, calls, picks>>

\* The inputs a handler reads: the active editor by attachCode, the key by
\* askQuestion.
EditorsFor(msg) == IF msg.command = "attachCode" THEN EditorsAsking ELSE {NoEditor}
KeysFor(msg) == IF msg.command = "askQuestion" THEN ApiKeys ELSE {<<>>}

Init ==
    /\ conversation = <<>>
    /\ inbox = <<>>
    /\ outbox = <<>>
    /\ calls = <<>>
    /\ picks = 0
    /\ log = <<>>
    /\ attachedFiles = <<>>
    /\ isLoading = FALSE

\* The extension host under any sender of messages: the webview's own state
\* takes no part.
Next ==
    \/ \E msg \in Messages : Post(msg) /\ UNCHANGED <<hist, ui>>
    \/ \E msg \in Messages : \E editor \in EditorsFor(msg), apiKey \in KeysFor(msg) :
          Dispatch(msg, editor, apiKey) /\ UNCHANGED <<hist, ui>>
    \/ \E i \in 1..Len(calls) : \E result \in Results :
          AskResume(i, result) /\ UNCHANGED <<hist, ui>>
    \/ \E content \in PromptOutcomesAsking : AttachResume(content) /\ UNCHANGED <<hist, ui>>
    \/ Deliver /\ UNCHANGED <<hist, ui>>

Spec == Init /\ [][Next]_vars

-----------------------------------------------------------------------------
(* Sequences of attachFile and removeFile calls alone, with the calls counted. *)

\* An attachFile call (the push of _handleAttachCode) is recorded.
CountAttach(content) ==
    IF content.kind = "file"
    THEN /\ Len(log) < MaxOps
         /\ log' = Append(log, [op |-> "attach", fileName |-> content.file.fileName,
                                content |-> AttachmentContent(content.file.fileName,
                                                              content.file.text)])
    ELSE UNCHANGED log

\* A removeFile call is recorded.
CountRemove(fileName) ==
    /\ Len(log) < MaxOps
    /\ log' = Append(log, [op |-> "remove", fileName |-> fileName, content |-> <<>>])

EditorsForAR(msg) == IF msg.command = "attachCode" THEN Editors ELSE {NoEditor}

AttachRemoveMessages == { msg \in Messages : msg.command \in {"attachCode", "removeFile"} }

PostAR(msg) == Post(msg) /\ UNCHANGED <<hist, ui>>

DispatchAR(msg, editor) ==
    /\ Dispatch(msg, editor, <<>>)
    /\ IF msg.command = "removeFile"
       THEN CountRemove(msg.fileName)
       ELSE IF editor = NoEditor THEN UNCHANGED hist ELSE CountAttach(EditorContent(editor))
    /\ UNCHANGED ui

AttachResumeAR(content) == AttachResume(content) /\ CountAttach(content) /\ UNCHANGED ui

DeliverAR == Deliver /\ UNCHANGED <<hist, ui>>

NextAR ==
    \/ \E msg \in AttachRemoveMessages : PostAR(msg)
    \/ \E msg \in AttachRemoveMessages : \E editor \in EditorsForAR(msg) : DispatchAR(msg, editor)
    \/ \E content \in PromptOutcomes : AttachResumeAR(content)
    \/ DeliverAR

SpecAR == Init /\ [][NextAR]_vars

-----------------------------------------------------------------------------
(* The whole panel, with the asks handled with a key and the calls settled  *)
(* counted.                                                                 *)

\* An askQuestion handled with a key is recorded.
CountKeyedAsk(apiKey) ==
    IF KeyPresent(apiKey)
    THEN /\ Len(log) < MaxOps
         /\ log' = Append(log, [op |-> "keyedAsk", fileName |-> <<>>, content |-> <<>>])
    ELSE UNCHANGED log

\* The settling of a completion call is recorded.
CountSettled ==
    /\ Len(log) < MaxOps
    /\ log' = Append(log, [op |-> "settled", fileName |-> <<>>, content |-> <<>>])

PostP(msg) == Post(msg) /\ UNCHANGED <<hist, ui>>

DispatchP(msg, editor, apiKey) ==
    /\ Dispatch(msg, editor, apiKey)
    /\ IF msg.command = "askQuestion" THEN CountKeyedAsk(apiKey) ELSE UNCHANGED hist
    /\ UNCHANGED ui

AskResumeP(i, result) == AskResume(i, result) /\ CountSettled /\ UNCHANGED ui

AttachResumeP(content) == AttachResume(content) /\ UNCHANGED <<hist, ui>>

DeliverP == Deliver /\ UNCHANGED <<hist, ui>>

NextP ==
    \/ \E msg \in Messages : PostP(msg)
    \/ \E msg \in Messages : \E editor \in EditorsFor(msg), apiKey \in KeysFor(msg) :
          DispatchP(msg, editor, apiKey)
    \/ \E i \in 1..Len(calls) : \E result \in Results : AskResumeP(i, result)
    \/ \E content \in PromptOutcomesAsking : AttachResumeP(content)
    \/ DeliverP

SpecP == Init /\ [][NextP]_vars

-----------------------------------------------------------------------------
(* The webview (webview.html) and the panel together: the messages are the *)
(* ones the webview's controls post.                                       *)

Listed(files, fileName) == \E k \in 1..Len(files) : files[k] = fileName

\* A list that takes every name it is given.
AddFileAlways(files, fileName) == Append(files, fileName)

\* addFileToContext: a name already listed is not added again.
AddFileToContext(files, fileName) ==
    IF Listed(files, fileName) THEN files ELSE Append(files, fileName)

\* attachedFiles.splice(index, 1) at the first entry of that name, if any.
RECURSIVE SpliceFile(_, _)
SpliceFile(files, fileName) ==
    IF files = <<>> THEN <<>>
    ELSE IF Head(files) = fileName THEN Tail(files)
         ELSE <<Head(files)>> \o SpliceFile(Tail(files), fileName)

\* The list after the message listener has taken `event`.
FilesAfterEvent(files, event) ==
    CASE event.type = "codeAttached" ->
            IF Truthy(event.fileName) THEN AddFileToContext(files, event.fileName) ELSE files
      [] event.type \in {"clear", "contextCleared"} -> <<>>
      [] OTHER -> files

\* hideLoading is called for a response and for an error.
LoadingAfterEvent(loading, event) ==
    IF event.type \in {"response", "error"} THEN FALSE ELSE loading

\* sendMessage, from the form or the Enter key: both are out of reach while the
\* input and the send button are disabled. showLoading sets the flag.
SendMessage(q) ==
    /\ ~isLoading
    /\ Post([command |-> "askQuestion", text |-> q])
    /\ isLoading' = TRUE
    /\ UNCHANGED <<attachedFiles, hist>>

\* attachCode, from the attach button, which is disabled while loading.
AttachCode ==
    /\ ~isLoading
    /\ Post([command |-> "attachCode"])
    /\ UNCHANGED <<ui, hist>>

\* removeFileFromContext, from the remove button of a listed file.
RemoveFileFromContext(fileName) ==
    /\ Listed(attachedFiles, fileName)
    /\ Post([command |-> "removeFile", fileName |-> fileName])
    /\ attachedFiles' = SpliceFile(attachedFiles, fileName)
    /\ UNCHANGED <<isLoading, hist>>

\* clearAllContext, from the Clear All button, which is shown with the list.
ClearAllContext ==
    /\ attachedFiles # <<>>
    /\ Post([command |-> "clearContext"])
    /\ attachedFiles' = <<>>
    /\ UNCHANGED <<isLoading, hist>>

\* A clearConversation message reaches the listener; no control of the webview
\* posts it.
ClearConversation ==
    /\ Post([command |-> "clearConversation"])
    /\ UNCHANGED <<ui, hist>>

\* The window message listener takes the next event.
Receive ==
    /\ Deliver
    /\ attachedFiles' = FilesAfterEvent(attachedFiles, Head(outbox))
    /\ isLoading' = LoadingAfterEvent(isLoading, Head(outbox))
    /\ UNCHANGED hist

NextUI ==
    \/ \E q \in Questions : SendMessage(q)
    \/ AttachCode
    \/ \E f \in FileNames : RemoveFileFromContext(f)
    \/ ClearAllContext
    \/ ClearConversation
    \/ Receive
    \/ \E msg \in Messages : \E editor \in EditorsFor(msg), apiKey \in KeysFor(msg) :
          Dispatch(msg, editor, apiKey) /\ UNCHANGED <<hist, ui>>
    \/ \E i \in 1..Len(calls) : \E result \in Results :
          AskResume(i, result) /\ UNCHANGED <<hist, ui>>
    \/ \E content \in PromptOutcomesAsking : AttachResume(content) /\ UNCHANGED <<hist, ui>>

SpecUI == Init /\ [][NextUI]_vars

\* The listener runs for the message at the head of the host's queue.
HostDispatch ==
    \E msg \in Messages : \E editor \in EditorsFor(msg), apiKey \in KeysFor(msg) :
        Dispatch(msg, editor, apiKey) /\ UNCHANGED <<hist, ui>>

\* The two event loops do not starve a message: one posted to the host is
\* handled, an event posted to the webview is received. Nothing is assumed of
\* the user, of the file pick or of the network.
SpecUILive == SpecUI /\ WF_vars(HostDispatch) /\ WF_vars(Receive)

-----------------------------------------------------------------------------
(* What the properties below speak of. *)

StartsWith(hay, needle) ==
    Len(needle) <= Len(hay) /\ SubSeq(hay, 1, Len(needle)) = needle

Last(s) == s[Len(s)]

\* s with one element more at its end.
Extends(s, t) == Len(t) = Len(s) + 1 /\ SubSeq(t, 1, Len(s)) = s

AskMessage(q) == [command |-> "askQuestion", text |-> q]
RemoveMessage(f) == [command |-> "removeFile", fileName |-> f]

\* The listener handles msg in this step.
Handles(msg) ==
    \E editor \in EditorsFor(msg), apiKey \in KeysFor(msg) : Dispatch(msg, editor, apiKey)

\* The turns of conv that are system turns attached under fileName.
AttachedUnder(conv, fileName) ==
    SelectSeq(conv, LAMBDA t : t.role = "system" /\ StartsWith(t.content, Marker(fileName)))

\* The user and assistant turns of conv, in order.
RECURSIVE Dialogue(_)
Dialogue(conv) ==
    IF conv = <<>> THEN <<>>
    ELSE IF Head(conv).role = "system" THEN Dialogue(Tail(conv))
         ELSE <<Head(conv)>> \o Dialogue(Tail(conv))

Roles(conv) == [i \in 1..Len(conv) |-> conv[i].role]

FileA == <<"a.py">>

\* What axios.post settles with, by the case of _callOpenAI it falls in: a
\* rejection, a 2xx response with no choice in it, a 2xx response with a
\* non-empty reply.
ApiFailures == { r \in Results : r.kind = "axios" }

NoChoice == { r \in Results : r.kind = "ok" /\ (~r.hasChoices \/ r.choices = <<>>) }

Replies ==
    { r \in Results : r.kind = "ok" /\ r.hasChoices /\ r.choices # <<>> /\ Head(r.choices) # <<>> }

-----------------------------------------------------------------------------
(* C1: removeFile(fileName) removes the system turns whose content begins   *)
(* with "Code attachment - {fileName}:" and nothing else; a system turn     *)
(* attached under another name stays even if its file text contains that    *)
(* string.                                                                  *)
C1_RemovesOnlyTurnsOfThatFile ==
    [][\A f \in FileNames :
         Handles(RemoveMessage(f)) =>
            conversation' = SelectSeq(conversation, LAMBDA t :
                ~(t.role = "system" /\ StartsWith(t.content, Marker(f))))]_vars

-----------------------------------------------------------------------------
(* C2, as stated: over sequences of attachFile / removeFile calls, the      *)
(* number of system turns of a file name is the number of attachFile calls  *)
(* for it minus the number of removeFile calls for it made after a matching *)
(* attach, clamped at 0. Stated for a.py, whose turns only removeFile of    *)
(* a.py deletes.                                                            *)
AttachCallsFor(f) ==
    Cardinality({ i \in 1..Len(log) : log[i].op = "attach" /\ log[i].fileName = f })

RemoveCallsAfterAttach(f) ==
    Cardinality({ j \in 1..Len(log) :
        /\ log[j].op = "remove" /\ log[j].fileName = f
        /\ \E i \in 1..(j - 1) : log[i].op = "attach" /\ log[i].fileName = f })

C2_CountIsAttachesMinusRemoves ==
    Len(AttachedUnder(conversation, FileA)) =
        (IF AttachCallsFor(FileA) > RemoveCallsAfterAttach(FileA)
         THEN AttachCallsFor(FileA) - RemoveCallsAfterAttach(FileA) ELSE 0)

(* C2, amended: the number of system turns whose content contains the marker *)
(* of a file name is the number of attachFile calls whose turn contains that *)
(* marker and that no later removeFile call matched. A removeFile call       *)
(* matches every turn that contains the marker of its name, and removes all  *)
(* of them at once.                                                          *)
Unremoved(f) ==
    { i \in 1..Len(log) :
        /\ log[i].op = "attach"
        /\ Includes(log[i].content, Marker(f))
        /\ ~\E j \in (i + 1)..Len(log) :
              log[j].op = "remove" /\ Includes(log[i].content, Marker(log[j].fileName)) }

C2_CountIsUnremovedAttaches ==
    \A f \in FileNames :
        Len(SelectSeq(conversation, LAMBDA t :
            t.role = "system" /\ Includes(t.content, Marker(f)))) = Cardinality(Unremoved(f))

\* a.py was attached twice and then removed: no turn of it is left.
C2_Witness ==
    /\ AttachCallsFor(FileA) = 2
    /\ RemoveCallsAfterAttach(FileA) = 1
    /\ Last(log).op = "remove"
    /\ AttachedUnder(conversation, FileA) = <<>>

-----------------------------------------------------------------------------
(* C3: every askQuestion whose completion call returns or fails (missing    *)
(* key, transport or HTTP failure, no choices, success with any content,    *)
(* the empty string included) posts exactly one event, response or error.   *)
PostsOneOutcome ==
    /\ Extends(outbox, outbox')
    /\ Last(outbox').type \in {"response", "error"}

C3_OneEventPerAsk ==
    [][/\ \A q \in Questions :
            Dispatch(AskMessage(q), NoEditor, <<>>) => PostsOneOutcome
       /\ \A i \in 1..Len(calls), result \in Results :
            AskResume(i, result) => PostsOneOutcome]_vars

-----------------------------------------------------------------------------
(* C4: when the completion call fails with a non-2xx status or a transport  *)
(* error, the handler posts an error event whose text includes the upstream *)
(* error message if there is one, else the transport error text, appends no *)
(* assistant turn and does not roll the user turn back: the transcript is   *)
(* as it was.                                                               *)
C4_ApiFailure ==
    [][\A i \in 1..Len(calls), result \in ApiFailures :
         AskResume(i, result) =>
            /\ conversation' = conversation
            /\ Extends(outbox, outbox')
            /\ Last(outbox').type = "error"
            /\ Includes(Last(outbox').content,
                        IF result.upstream # <<>> THEN result.upstream ELSE result.message)]_vars

\* A 401 was reported, the ask's user turn is the last turn.
C4_Witness ==
    /\ outbox # <<>>
    /\ Last(outbox).type = "error"
    /\ Includes(Last(outbox).content, <<"invalid_api_key">>)
    /\ conversation # <<>>
    /\ Last(conversation).role = "user"

-----------------------------------------------------------------------------
(* C5: an askQuestion handled with no API key configured attempts no        *)
(* network call, posts an error event that names the missing key, and       *)
(* leaves the ask's user turn in the transcript with no assistant turn.     *)
C5_MissingKey ==
    [][\A q \in Questions :
         Dispatch(AskMessage(q), NoEditor, <<>>) =>
            /\ calls' = calls
            /\ conversation' = conversation \o <<Turn("user", q)>>
            /\ Extends(outbox, outbox')
            /\ Last(outbox').type = "error"
            /\ Includes(Last(outbox').content, MissingKeyMessage)]_vars

\* The missing key was reported, nothing is in flight, the user turn is there.
C5_Witness ==
    /\ calls = <<>>
    /\ outbox # <<>>
    /\ Last(outbox).type = "error"
    /\ Includes(Last(outbox).content, MissingKeyMessage)
    /\ conversation # <<>>
    /\ Last(conversation).role = "user"

-----------------------------------------------------------------------------
(* C6: a success status with the choices array missing or empty ends the    *)
(* ask in an error event, as an API error does; no assistant turn is        *)
(* appended and the user turn stays.                                        *)
C6_InvalidResponse ==
    [][\A i \in 1..Len(calls), result \in NoChoice :
         AskResume(i, result) =>
            /\ conversation' = conversation
            /\ Extends(outbox, outbox')
            /\ Last(outbox').type = "error"
            /\ StartsWith(Last(outbox').content, <<"Error processing message: ">>)]_vars

\* The malformed response was reported, the ask's user turn is the last turn.
C6_Witness ==
    /\ outbox # <<>>
    /\ Last(outbox).type = "error"
    /\ Includes(Last(outbox).content, <<"Invalid response from OpenAI API">>)
    /\ conversation # <<>>
    /\ Last(conversation).role = "user"

-----------------------------------------------------------------------------
(* C7: with nothing interleaved, askQuestion(text) answered by a reply r    *)
(* appends user(text) and then assistant(r) at the tail, after the turns    *)
(* already there, and posts a response event with r. A reply is a non-empty *)
(* text; the transcript being the request's messages when the call settles  *)
(* is what nothing interleaved comes to.                                    *)
C7_AskThenReply ==
    [][/\ \A q \in Questions, apiKey \in ApiKeys :
            Dispatch(AskMessage(q), NoEditor, apiKey) =>
                conversation' = conversation \o <<Turn("user", q)>>
       /\ \A i \in 1..Len(calls), result \in Replies :
            (conversation = calls[i].messages /\ AskResume(i, result)) =>
                /\ conversation' =
                      calls[i].messages \o <<Turn("assistant", Head(result.choices))>>
                /\ outbox' = outbox \o <<Event("response", Head(result.choices))>>]_vars

\* The scenario of the specification: [system(a.py), user(q), assistant(r)].
C7_Witness ==
    /\ conversation =
         << Turn("system", AttachmentContent(FileA, <<"print(1)">>)),
            Turn("user", <<"what does this do?">>),
            Turn("assistant", <<"It prints 1.">>) >>
    /\ outbox # <<>>
    /\ Last(outbox) = Event("response", <<"It prints 1.">>)

-----------------------------------------------------------------------------
(* C8: the messages sent to the completion endpoint are the whole           *)
(* transcript in storage order, nothing filtered, no system turn hoisted.   *)
C8_RequestIsTranscript ==
    [][\A q \in Questions :
         Dispatch(AskMessage(q), NoEditor, <<"sk-key">>) =>
            /\ Extends(calls, calls')
            /\ Last(calls').messages = conversation \o <<Turn("user", q)>>
            /\ Last(calls').messages = conversation']_vars

\* A request in flight lists a system turn between two user turns.
C8_Witness ==
    \E i \in 1..Len(calls) : Roles(calls[i].messages) = <<"user", "system", "user">>

-----------------------------------------------------------------------------
(* C9: after clearContext the transcript holds no system turn, and its user *)
(* and assistant turns are the same, in number, order and content.          *)
C9_ClearContext ==
    [][Handles([command |-> "clearContext"]) =>
         /\ \A k \in 1..Len(conversation') : conversation'[k].role # "system"
         /\ Dialogue(conversation') = Dialogue(conversation)]_vars

\* The context was cleared after a request listing a system turn was sent: the
\* user turn is still there, the system turn is not.
C9_Witness ==
    /\ outbox # <<>>
    /\ Last(outbox).type = "contextCleared"
    /\ Roles(conversation) = <<"user">>
    /\ \E i \in 1..Len(calls) : Roles(calls[i].messages) = <<"system", "user">>

-----------------------------------------------------------------------------
(* C10: clearConversation empties the transcript whatever it held, and a    *)
(* clear event is posted.                                                   *)
C10_ClearConversation ==
    [][Handles([command |-> "clearConversation"]) =>
         /\ conversation' = <<>>
         /\ outbox' = outbox \o <<[type |-> "clear"]>>]_vars

\* The transcript was cleared while a request listing turns was in flight.
C10_Witness ==
    /\ conversation = <<>>
    /\ outbox # <<>>
    /\ Last(outbox).type = "clear"
    /\ \E i \in 1..Len(calls) : calls[i].messages # <<>>

-----------------------------------------------------------------------------
(* C11: removeFile is idempotent: a second removeFile(x) right after the    *)
(* first leaves the transcript as the first left it; removeFile of a name   *)
(* under which no system turn is attached leaves the transcript unchanged;  *)
(* and removeFile raises no error (it posts no event).                      *)
C11_RemoveFileIdempotent ==
    [][\A f \in FileNames :
         Handles(RemoveMessage(f)) =>
            /\ RemoveFileFilter(conversation', f) = conversation'
            /\ outbox' = outbox
            /\ (AttachedUnder(conversation, f) = <<>> => conversation' = conversation)]_vars

-----------------------------------------------------------------------------
(* C12: a successful attach appends exactly one system turn at the tail,    *)
(* whether or not the transcript already holds a turn of that file name, so *)
(* n attaches of a name leave n turns of it; and a completion request lists *)
(* every system turn the transcript holds, duplicates included.             *)
AttachMessage == [command |-> "attachCode"]

SystemTurnOf(file) == Turn("system", AttachmentContent(file.fileName, file.text))

SystemTurns(conv) == SelectSeq(conv, LAMBDA t : t.role = "system")

C12_AttachAppendsOneTurn ==
    [][/\ \A editor \in EditorsAsking :
            (/\ editor # NoEditor
             /\ EditorContent(editor).kind = "file"
             /\ Dispatch(AttachMessage, editor, <<>>)) =>
                conversation' = conversation \o <<SystemTurnOf(editor)>>
       /\ \A content \in PromptOutcomesAsking :
            (content.kind = "file" /\ AttachResume(content)) =>
                conversation' = conversation \o <<SystemTurnOf(content.file)>>
       /\ \A q \in Questions :
            Dispatch(AskMessage(q), NoEditor, <<"sk-key">>) =>
                SystemTurns(Last(calls').messages) = SystemTurns(conversation)]_vars

\* a.py was attached twice and a request in flight lists both turns.
C12_Witness ==
    /\ Len(AttachedUnder(conversation, FileA)) = 2
    /\ \E i \in 1..Len(calls) : Len(AttachedUnder(calls[i].messages, FileA)) = 2

-----------------------------------------------------------------------------
(* C13: an attach that cannot obtain content (the file search, the pick or  *)
(* the read throws, no file is picked, or the active document is blank)     *)
(* leaves the transcript unchanged and posts exactly one event, an error:   *)
(* no codeAttached.                                                         *)
PostsOneError ==
    /\ Extends(outbox, outbox')
    /\ Last(outbox').type = "error"

C13_FailedAttach ==
    [][/\ \A editor \in EditorsAsking :
            (/\ editor # NoEditor
             /\ Trim(editor.text) = <<>>
             /\ Dispatch(AttachMessage, editor, <<>>)) =>
                (conversation' = conversation /\ PostsOneError)
       /\ \A content \in PromptOutcomesAsking :
            (content.kind \in {"null", "throw"} /\ AttachResume(content)) =>
                (conversation' = conversation /\ PostsOneError)]_vars

\* A file was attached, then an attach failed on the read of the picked file.
C13_Witness ==
    /\ outbox # <<>>
    /\ Last(outbox).type = "error"
    /\ StartsWith(Last(outbox).content, <<"Error attaching code: ">>)
    /\ Includes(Last(outbox).content, <<"Failed to read file: ">>)
    /\ Roles(conversation) = <<"system">>

-----------------------------------------------------------------------------
(* C14: an askQuestion handled with an API key issues exactly one POST to   *)
(* the completion endpoint and no other step issues any; a call that        *)
(* settles, failed or not, is not issued again. Over any run the POSTs      *)
(* issued, those in flight and those settled, are as many as the asks       *)
(* handled with a key.                                                      *)
KeyedAsk ==
    \E q \in Questions, apiKey \in ApiKeys :
        Truthy(apiKey) /\ Dispatch(AskMessage(q), NoEditor, apiKey)

Recorded(op) == Cardinality({ k \in 1..Len(log) : log[k].op = op })

PostsIssued == Len(calls) + Recorded("settled")

C14_OnePostPerKeyedAsk ==
    /\ [](PostsIssued = Recorded("keyedAsk"))
    /\ [][/\ KeyedAsk => Extends(calls, calls')
          /\ ~KeyedAsk => Len(calls') <= Len(calls)
          /\ \A i \in 1..Len(calls), result \in Results :
               AskResume(i, result) => Len(calls') = Len(calls) - 1]_vars

\* Two asks were handled with a key; one call failed on the network and was
\* not issued again, the other is in flight.
C14_Witness ==
    /\ Recorded("keyedAsk") = 2
    /\ Recorded("settled") = 1
    /\ Len(calls) = 1
    /\ outbox # <<>>
    /\ Last(outbox).type = "error"
    /\ Includes(Last(outbox).content, <<"Network Error">>)

-----------------------------------------------------------------------------
(* C15: in every quiescent state (no message and no event in flight, no     *)
(* handler suspended) a file name is listed by the webview if and only if   *)
(* the transcript holds at least one system turn attached under it.         *)
Quiescent ==
    /\ inbox = <<>>
    /\ outbox = <<>>
    /\ calls = <<>>
    /\ picks = 0

C15_ListMatchesTranscript ==
    Quiescent =>
        \A f \in FileNames :
            Listed(attachedFiles, f) <=> AttachedUnder(conversation, f) # <<>>

-----------------------------------------------------------------------------
(* C16: the webview's list of attached files never holds a file name twice: *)
(* a codeAttached event for a name already listed leaves the list as it is, *)
(* while the transcript may hold several system turns of that name.         *)
NoDuplicates(files) ==
    \A j, k \in 1..Len(files) : files[j] = files[k] => j = k

C16_ListHasNoDuplicates ==
    /\ [](NoDuplicates(attachedFiles))
    /\ [][(/\ Receive
           /\ Head(outbox).type = "codeAttached"
           /\ Listed(attachedFiles, Head(outbox).fileName)) =>
                attachedFiles' = attachedFiles]_vars

\* Both codeAttached events of two attaches of a.py were received: a.py is
\* listed once, the transcript holds two system turns of it.
C16_Witness ==
    /\ attachedFiles = <<FileA>>
    /\ Len(AttachedUnder(conversation, FileA)) = 2
    /\ outbox = <<>>
    /\ inbox = <<>>

-----------------------------------------------------------------------------
(* C17: no step edits or reorders a turn: a step leaves the transcript as   *)
(* it is, appends one turn at its tail, or deletes turns; the turns that    *)
(* survive keep their role, their content and their order.                  *)
RECURSIVE IsSubsequence(_, _)
IsSubsequence(s, t) ==
    IF s = <<>> THEN TRUE
    ELSE IF t = <<>> THEN FALSE
    ELSE IF Head(s) = Head(t) THEN IsSubsequence(Tail(s), Tail(t))
         ELSE IsSubsequence(s, Tail(t))

C17_AppendOrDelete ==
    [][\/ Extends(conversation, conversation')
       \/ IsSubsequence(conversation', conversation)]_vars

\* A system turn between two user turns was deleted, as the request in flight
\* shows: the user turns are left, in their order.
C17_Witness ==
    /\ Roles(conversation) = <<"user", "user">>
    /\ \E i \in 1..Len(calls) : Roles(calls[i].messages) = <<"user", "system", "user">>

-----------------------------------------------------------------------------
(* C18: an assistant turn is appended only when a completion call has       *)
(* returned successfully, one turn at most per such call and with the text  *)
(* that call returned; a failed call leaves the transcript as it was. So    *)
(* the assistant turns ever appended are at most as many as the calls that  *)
(* returned, and every assistant turn holds a returned text.                *)
AssistantTurns(conv) == SelectSeq(conv, LAMBDA t : t.role = "assistant")

\* The calls that returned: a 2xx response with a first choice.
Returns == Results \ (ApiFailures \cup NoChoice)

C18_AssistantOnlyAfterSuccess ==
    /\ [](\A k \in 1..Len(conversation) :
            conversation[k].role = "assistant" =>
                \E r \in Returns : conversation[k].content = Head(r.choices))
    /\ [][/\ Len(AssistantTurns(conversation')) > Len(AssistantTurns(conversation)) =>
                \E i \in 1..Len(calls), r \in Returns :
                    /\ AskResume(i, r)
                    /\ conversation' = conversation \o <<Turn("assistant", Head(r.choices))>>
          /\ \A i \in 1..Len(calls), r \in ApiFailures \cup NoChoice :
                AskResume(i, r) => conversation' = conversation]_vars

\* One ask was answered, the next one failed: one assistant turn.
C18_Witness ==
    /\ Roles(conversation) = <<"user", "assistant", "user">>
    /\ calls = <<>>
    /\ outbox # <<>>
    /\ Last(outbox).type = "error"
    /\ Includes(Last(outbox).content, <<"API Error: ">>)

-----------------------------------------------------------------------------
(* C19: the host does not serialize asks. An askQuestion handled while a    *)
(* completion call is in flight issues a second call; if nothing else has   *)
(* touched the transcript, its request is the first request followed by the *)
(* new user turn, with no reply in between. Whichever call returns with a   *)
(* reply, the later one included, has its assistant turn appended at the    *)
(* tail at that moment: the assistant turns are in completion order.        *)
C19_AsksNotSerialized ==
    [][/\ \A q \in Questions, i \in 1..Len(calls) :
            (/\ conversation = calls[i].messages
             /\ Dispatch(AskMessage(q), NoEditor, <<"sk-key">>)) =>
                /\ Len(calls') = Len(calls) + 1
                /\ \E b \in 1..Len(calls') : calls'[b] = calls[i]
                /\ Last(calls').messages = calls[i].messages \o <<Turn("user", q)>>
       /\ \A i \in 1..Len(calls), r \in Replies :
            AskResume(i, r) =>
                /\ conversation' = conversation \o <<Turn("assistant", Head(r.choices))>>
                /\ Len(calls') = Len(calls) - 1
                /\ \A b \in 1..Len(calls) : b # i => \E c \in 1..Len(calls') : calls'[c] = calls[b]]_vars

\* Two calls were in flight; the second one, asked later, returned first: its
\* reply is in the transcript while the first request is still in flight.
C19_Witness ==
    /\ Roles(conversation) = <<"user", "user", "assistant">>
    /\ Len(calls) = 1
    /\ Roles(calls[1].messages) = <<"user">>

-----------------------------------------------------------------------------
(* C20: the message list of every completion request is non-empty and ends  *)
(* with the user turn that the ask issuing the request has just appended:   *)
(* the push and the request are one step of the handler, with no other      *)
(* handler in between.                                                      *)
C20_RequestEndsWithOwnQuestion ==
    /\ [](\A i \in 1..Len(calls) :
            /\ calls[i].messages # <<>>
            /\ Last(calls[i].messages).role = "user")
    /\ [][\A q \in Questions :
            Dispatch(AskMessage(q), NoEditor, <<"sk-key">>) =>
                /\ Extends(calls, calls')
                /\ Len(Last(calls').messages) = Len(conversation) + 1
                /\ Last(Last(calls').messages) = Turn("user", q)]_vars

\* Two requests in flight, each ending with the user turn of its own ask.
C20_Witness ==
    /\ Len(calls) = 2
    /\ Roles(calls[1].messages) = <<"user">>
    /\ Roles(calls[2].messages) = <<"user", "user">>
    /\ inbox = <<>>

-----------------------------------------------------------------------------
(* C21: in every reachable state each assistant turn of the transcript has, *)
(* somewhere before it in the transcript, the user turn of the ask that     *)
(* produced it, also when clearConversation, clearContext or removeFile is  *)
(* handled while that ask's completion is in flight. The asks put the same  *)
(* question, so the formula asks for no more than a user turn at an earlier *)
(* position, which the turn of the producing ask would be.                  *)
UserTurnBefore(conv, k) == \E j \in 1..(k - 1) : conv[j].role = "user"

C21_AssistantAfterItsUserTurn ==
    \A k \in 1..Len(conversation) :
        conversation[k].role = "assistant" => UserTurnBefore(conversation, k)

-----------------------------------------------------------------------------
(* C22: from the moment sendMessage posts askQuestion until the response or *)
(* error event of that ask arrives, isLoading is true (showLoading has      *)
(* disabled the question input, the send button and the attach button), so  *)
(* the webview posts no askQuestion and no attachCode meanwhile and has at  *)
(* most one ask outstanding at any time.                                    *)

\* The error events of _handleAttachCode; every other error event and every
\* response event is the outcome of an ask.
AttachErrorEvent(e) ==
    /\ e.type = "error"
    /\ Head(e.content) \in {"No code to attach", "Error attaching code: "}

AskOutcomeEvent(e) == e.type \in {"response", "error"} /\ ~AttachErrorEvent(e)

\* The asks posted whose outcome has not arrived: posted and not handled, with
\* the completion call pending, or with the outcome event on its way.
AsksOutstanding ==
    Len(SelectSeq(inbox, LAMBDA m : m.command = "askQuestion"))
    + Len(calls)
    + Len(SelectSeq(outbox, AskOutcomeEvent))

PostsAskOrAttach ==
    /\ Extends(inbox, inbox')
    /\ Last(inbox').command \in {"askQuestion", "attachCode"}

C22_LoadingGuard ==
    /\ [](AsksOutstanding > 0 => isLoading)
    /\ [](AsksOutstanding <= 1)
    /\ [][isLoading => ~PostsAskOrAttach]_vars

-----------------------------------------------------------------------------
(* C23: whenever the webview is in the loading state for an ask and the     *)
(* completion call of that ask has returned or failed, the webview          *)
(* eventually leaves the loading state (isLoading false, the controls       *)
(* enabled again), whatever the result of the call, a 2xx response with     *)
(* empty content included. The formula takes the states where the call of   *)
(* every ask posted has settled, which are among the states the claim is    *)
(* about.                                                                   *)
AsksSettled ==
    /\ calls = <<>>
    /\ \A k \in 1..Len(inbox) : inbox[k].command # "askQuestion"

C23_LoadingEnds == (isLoading /\ AsksSettled) ~> ~isLoading

====
